---- MODULE Spec2Model ----
(***************************************************************************)
(* Model of update.py: the static-site generator that turns .txt stories   *)
(* annotated as  base(pron)  into ruby HTML pages plus an index page.      *)
(*                                                                         *)
(* Text is a sequence of Unicode code points (Python str), so that the     *)
(* character classes of the code (the CJK range of RUBY_RE, str.isspace,   *)
(* the line boundaries of str.splitlines) are the code's own.              *)
(***************************************************************************)
EXTENDS Integers, Sequences, FiniteSets, TLC

VARIABLES
    text,        \* the document handed to extract_title / to_ruby_html
    title,       \* result of extract_title(text, fallback)
    body_html,   \* result of to_ruby_html(text)
    tpc,         \* position in the text pipeline: "text" -> "titled" -> "rendered"
    fs,          \* BASE_DIR: file name -> file content
    unreadable,  \* names of the source files whose read_text raises
    txt_files,   \* main: the sorted glob result
    pages,       \* main: the list of (html_filename, title) records
    k,           \* main: number of entries of txt_files already processed
    pc,          \* main: position in the run ("idle": between two runs)
    reads,       \* history: source names passed to read_text in this run, in order
    fs_at_start  \* history: BASE_DIR as it was when the run started

vars == << text, title, body_html, tpc, fs, unreadable, txt_files, pages, k, pc,
           reads, fs_at_start >>

textVars == << text, title, body_html, tpc >>
mainVars == << fs, unreadable, txt_files, pages, k, pc, reads, fs_at_start >>

-----------------------------------------------------------------------------
(* Bounds of the model. *)

\* longest document drawn exhaustively for the pure text functions
MaxLen == 5

\* code points the documents are drawn from:
\*   23567 = U+5C0F (a CJK ideograph), 97 = "a", 40 = "(", 41 = ")",
\*   32 = space, 10 = line feed
Alphabet == {23567, 97, 40, 41, 32, 10}

Texts == UNION { [1..n -> Alphabet] : n \in 0..MaxLen }

-----------------------------------------------------------------------------
(* Python str helpers. *)

Min(S) == CHOOSE x \in S : \A y \in S : x <= y
Max(S) == CHOOSE x \in S : \A y \in S : x >= y

\* str.isspace() for one character
IsSpace(c) ==
    \/ c \in 9..13
    \/ c \in 28..32
    \/ c \in {133, 160, 5760, 8232, 8233, 8239, 8287, 12288}
    \/ c \in 8192..8202

\* the line boundaries of str.splitlines()
IsLineBoundary(c) == c \in {10, 11, 12, 13, 28, 29, 30, 133, 8232, 8233}

\* [一-鿿]
IsHan(c) == c >= 19968 /\ c <= 40959

\* str.strip()
strip(s) ==
    LET nz == { i \in 1..Len(s) : ~IsSpace(s[i]) }
    IN  IF nz = {} THEN << >> ELSE SubSeq(s, Min(nz), Max(nz))

\* "".join(s.split()): split() cuts at runs of whitespace and keeps no empty piece
JoinSplit(s) == SelectSeq(s, LAMBDA c : ~IsSpace(c))

RECURSIVE splitlinesFrom(_, _, _)
splitlinesFrom(s, i, cur) ==
    IF i > Len(s) THEN (IF cur = << >> THEN << >> ELSE << cur >>)
    ELSE IF s[i] = 13 /\ i < Len(s) /\ s[i + 1] = 10
         THEN << cur >> \o splitlinesFrom(s, i + 2, << >>)
    ELSE IF IsLineBoundary(s[i])
         THEN << cur >> \o splitlinesFrom(s, i + 1, << >>)
    ELSE splitlinesFrom(s, i + 1, Append(cur, s[i]))

\* str.splitlines()
splitlines(s) == splitlinesFrom(s, 1, << >>)

RECURSIVE splitBlankFrom(_, _, _)
splitBlankFrom(s, i, cur) ==
    IF i > Len(s) THEN << cur >>
    ELSE IF i < Len(s) /\ s[i] = 10 /\ s[i + 1] = 10
         THEN << cur >> \o splitBlankFrom(s, i + 2, << >>)
    ELSE splitBlankFrom(s, i + 1, Append(cur, s[i]))

\* s.split("\n\n")
splitBlank(s) == splitBlankFrom(s, 1, << >>)

RECURSIVE joinBlank(_)
\* "\n\n".join(ps)
joinBlank(ps) ==
    IF ps = << >> THEN << >>
    ELSE IF Len(ps) = 1 THEN ps[1]
    ELSE ps[1] \o << 10, 10 >> \o joinBlank(Tail(ps))

-----------------------------------------------------------------------------
(* RUBY_RE = ([一-鿿]+)\(([^)]+)\) *)

NoMatch == [ok |-> FALSE]

\* RUBY_RE.match(s, i): the match that starts at position i, if any.  The
\* greedy run of ideographs must be followed by "(", one or more characters
\* other than ")", and ")".
RUBY_RE_match(s, i) ==
    LET n    == Len(s)
        stop == { j \in i..n : ~IsHan(s[j]) }
        j    == IF stop = {} THEN n + 1 ELSE Min(stop)
        cl   == { c \in (j + 1)..n : s[c] = 41 }
    IN  IF j = i \/ j > n THEN NoMatch
        ELSE IF s[j] # 40 \/ cl = {} THEN NoMatch
        ELSE IF Min(cl) = j + 1 THEN NoMatch
        ELSE [ok  |-> TRUE,
              han |-> SubSeq(s, i, j - 1),
              py  |-> SubSeq(s, j + 1, Min(cl) - 1),
              end |-> Min(cl)]

RUBY_OPEN  == << 60, 114, 117, 98, 121, 62 >>       \* "<ruby>"
RT_OPEN    == << 60, 114, 116, 62 >>                \* "<rt>"
RT_CLOSE   == << 60, 47, 114, 116, 62 >>            \* "</rt>"
RUBY_CLOSE == << 60, 47, 114, 117, 98, 121, 62 >>   \* "</ruby>"
P_OPEN     == << 60, 112, 62 >>                     \* "<p>"
P_CLOSE    == << 60, 47, 112, 62 >>                 \* "</p>"

\* repl with the base and the pronunciation in each other's place
repl_swapped(m) == RUBY_OPEN \o m.py \o RT_OPEN \o m.han \o RT_CLOSE \o RUBY_CLOSE

\* the replacement function of to_ruby_html
repl(m) == RUBY_OPEN \o m.han \o RT_OPEN \o m.py \o RT_CLOSE \o RUBY_CLOSE

\* the whole match kept instead of group 1
group1_whole(m) == m.han \o << 40 >> \o m.py \o << 41 >>

\* the replacement template r'\1' of extract_title
group1(m) == m.han

RECURSIVE RUBY_RE_sub(_, _, _)
\* RUBY_RE.sub(replacement, s) from position i on: leftmost, non-overlapping,
\* one pass; characters outside matches are copied.
RUBY_RE_sub(asHtml, s, i) ==
    IF i > Len(s) THEN << >>
    ELSE LET m == RUBY_RE_match(s, i)
         IN  IF m.ok
             THEN (IF asHtml THEN repl(m) ELSE group1(m))
                      \o RUBY_RE_sub(asHtml, s, m.end + 1)
             ELSE << s[i] >> \o RUBY_RE_sub(asHtml, s, i + 1)

-----------------------------------------------------------------------------
(* extract_title and to_ruby_html *)

\* lines = [ln.strip() for ln in text.splitlines() if ln.strip()]
nonEmptyLines(t) ==
    LET ls == splitlines(t)
        st == [ i \in 1..Len(ls) |-> strip(ls[i]) ]
    IN  SelectSeq(st, LAMBDA ln : ln # << >>)

extract_title(t, fb) ==
    LET lines == nonEmptyLines(t)
    IN  IF lines = << >> THEN fb
        ELSE LET first     == lines[1]
                 no_pinyin == RUBY_RE_sub(FALSE, first, 1)
                 ttl       == JoinSplit(no_pinyin)
             IN  IF ttl = << >> THEN fb ELSE ttl

\* the block as it is substituted: block.strip()
stripBlock(block) == strip(block)

\* one <p> element of to_ruby_html
paragraph(block) == P_OPEN \o RUBY_RE_sub(TRUE, block, 1) \o P_CLOSE

\* paragraphs without the `if not block: continue`
paragraphs_keepEmpty(t) ==
    LET blocks == splitBlank(strip(t))
    IN  [ i \in 1..Len(blocks) |-> paragraph(stripBlock(blocks[i])) ]

\* the list `paragraphs` of to_ruby_html at the end of its loop
paragraphs(t) ==
    LET blocks == splitBlank(strip(t))
        st     == [ i \in 1..Len(blocks) |-> stripBlock(blocks[i]) ]
        kept   == SelectSeq(st, LAMBDA b : b # << >>)
    IN  [ i \in 1..Len(kept) |-> paragraph(kept[i]) ]

to_ruby_html(t) == joinBlank(paragraphs(t))

-----------------------------------------------------------------------------
(* The text pipeline: one document through extract_title and to_ruby_html, *)
(* as write_story_html calls them.                                         *)

\* the fallback write_story_html passes: txt_path.stem, here "f" of f.txt
Fallback == << 102 >>

\* longer documents, beyond the exhaustive bound
Samples ==
    { << 97, 10, 10, 10, 10, 97 >>,                      \* "a\n\n\n\na"
      << 97, 10, 10, 32, 10, 10, 97 >>,                  \* "a\n\n \n\na"
      << 23567, 40, 97, 41, 32, 23567, 40, 97, 41 >>,    \* "小(a) 小(a)"
      << 97, 10, 97, 10, 10, 97 >>,                      \* "a\na\n\na"
      << 23567, 23567, 40, 97, 32, 97, 41, 97 >>,        \* "小小(a a)a"
      << 32, 10, 32, 23567, 40, 97, 41, 32, 10 >> }      \* " \n 小(a) \n"

InitText ==
    /\ text \in Texts \cup Samples
    /\ title = << >>
    /\ body_html = << >>
    /\ tpc = "text"
    /\ fs = << >>
    /\ unreadable = {}
    /\ txt_files = << >>
    /\ pages = << >>
    /\ k = 0
    /\ pc = "off"
    /\ reads = << >>
    /\ fs_at_start = << >>

\* title = extract_title(text, txt_path.stem)
ExtractTitle ==
    /\ tpc = "text"
    /\ title' = extract_title(text, Fallback)
    /\ tpc' = "titled"
    /\ UNCHANGED << text, body_html >>
    /\ UNCHANGED mainVars

\* body_html = to_ruby_html(text)
ToRubyHtml ==
    /\ tpc = "titled"
    /\ body_html' = to_ruby_html(text)
    /\ tpc' = "rendered"
    /\ UNCHANGED << text, title >>
    /\ UNCHANGED mainVars

NextText == ExtractTitle \/ ToRubyHtml

SpecText == InitText /\ [][NextText]_vars

-----------------------------------------------------------------------------
(* main: one run of the generator over BASE_DIR.                           *)
(*                                                                         *)
(* fs maps the name of every file of BASE_DIR to its content: the text of  *)
(* a source file, the slots a page template is filled with, or the text of *)
(* the stylesheet.                                                          *)

TXT_SUFFIX  == << 46, 116, 120, 116 >>                              \* ".txt"
HTML_SUFFIX == << 46, 104, 116, 109, 108 >>                         \* ".html"
CSS_FILE    == << 115, 116, 121, 108, 101, 46, 99, 115, 115 >>      \* "style.css"
INDEX_FILE  == << 105, 110, 100, 101, 120, 46, 104, 116, 109, 108 >> \* "index.html"
SITE_TITLE  == "Chinese Reading"

\* the css ensure_css writes
DEFAULT_CSS ==
    "body {\n  max-width: 800px;\n  margin: 2rem auto;\n  padding: 1rem;\n  font-family: system-ui, -apple-system, BlinkMacSystemFont, \"Segoe UI\", sans-serif;\n  font-size: 1.4rem;\n  line-height: 1.8;\n}\n\na {\n  color: inherit;\n}\n\na.back {\n  display: inline-block;\n  margin-bottom: 1rem;\n  text-decoration: none;\n}\n\nul.story-list {\n  padding-left: 1.2rem;\n}\n\nul.story-list li {\n  margin: 0.4rem 0;\n}\n\nruby {\n  ruby-position: over;\n}\n\nrt {\n  font-size: 0.6em;\n  color: #555;\n}\n"

\* a stylesheet edited by hand
USER_CSS == "body { font-size: 2rem; }\n"

\* PurePath.stem: the name without its last suffix
stem(name) ==
    LET dots == { i \in 2..(Len(name) - 1) : name[i] = 46 }
    IN  IF dots = {} THEN name ELSE SubSeq(name, 1, Max(dots) - 1)

\* txt_path.with_suffix(".html").name
html_name(name) == stem(name) \o HTML_SUFFIX

\* Path ordering inside one directory: the names compared code point by code point
LexLess(a, b) ==
    \E i \in 1..(Len(a) + 1) :
        /\ i <= Len(b)
        /\ \A m \in 1..(i - 1) : a[m] = b[m]
        /\ (i = Len(a) + 1 \/ a[i] < b[i])

RECURSIVE sorted_reversed(_)
\* sorted(S, reverse=True)
sorted_reversed(S) ==
    IF S = {} THEN << >>
    ELSE LET m == CHOOSE x \in S : \A y \in S \ {x} : LexLess(y, x)
         IN  << m >> \o sorted_reversed(S \ {m})

RECURSIVE sorted(_)
\* sorted(S)
sorted(S) ==
    IF S = {} THEN << >>
    ELSE LET m == CHOOSE x \in S : \A y \in S \ {x} : LexLess(x, y)
         IN  << m >> \o sorted(S \ {m})

\* BASE_DIR.glob("*.txt")
glob_txt(dir) ==
    { n \in DOMAIN dir :
        /\ Len(n) >= Len(TXT_SUFFIX)
        /\ SubSeq(n, Len(n) - Len(TXT_SUFFIX) + 1, Len(n)) = TXT_SUFFIX }

\* path.write_text(content)
write_text(dir, name, content) ==
    [ n \in DOMAIN dir \cup {name} |-> IF n = name THEN content ELSE dir[n] ]

\* the page template of write_story_html, by its slots
story_page(ttl, body) == [ kind |-> "story", title |-> ttl, body |-> body ]

\* the page template of write_index, by its slots: one <li> per record
index_page(ps) ==
    [ kind  |-> "index",
      title |-> SITE_TITLE,
      items |-> [ i \in 1..Len(ps) |-> [ href |-> ps[i][1], title |-> ps[i][2] ] ] ]

\* names of the source files of the model
SourceNames ==
    { << 97 >> \o TXT_SUFFIX,          \* "a.txt"
      << 97, 45 >> \o TXT_SUFFIX,      \* "a-.txt"
      << 98 >> \o TXT_SUFFIX }         \* "b.txt"

\* contents of the source files of the model
StoryTexts ==
    { << >>,
      << 23567, 40, 97, 41, 32, 97 >> }     \* "小(a) a"

Init ==
    /\ \E S \in SUBSET SourceNames :
       \E content \in [S -> StoryTexts] :
       \E css \in {"", DEFAULT_CSS, USER_CSS} :
          /\ fs = [ n \in S \cup (IF css = "" THEN {} ELSE {CSS_FILE}) |->
                       IF n = CSS_FILE THEN css ELSE content[n] ]
          /\ unreadable \in SUBSET S
    /\ fs_at_start = fs
    /\ txt_files = << >>
    /\ pages = << >>
    /\ k = 0
    /\ pc = "ensure_css"
    /\ reads = << >>
    /\ text = << >>
    /\ title = << >>
    /\ body_html = << >>
    /\ tpc = "off"

\* ensure_css without the `if css_path.exists(): return`
EnsureCss_overwrite ==
    /\ pc = "ensure_css"
    /\ fs' = write_text(fs, CSS_FILE, DEFAULT_CSS)
    /\ pc' = "glob"
    /\ UNCHANGED << unreadable, txt_files, pages, k, reads, fs_at_start >>
    /\ UNCHANGED textVars

\* ensure_css()
EnsureCss ==
    /\ pc = "ensure_css"
    /\ fs' = IF CSS_FILE \in DOMAIN fs THEN fs ELSE write_text(fs, CSS_FILE, DEFAULT_CSS)
    /\ pc' = "glob"
    /\ UNCHANGED << unreadable, txt_files, pages, k, reads, fs_at_start >>
    /\ UNCHANGED textVars

\* txt_files = sorted(BASE_DIR.glob("*.txt")); pages = []
Glob ==
    /\ pc = "glob"
    /\ txt_files' = sorted(glob_txt(fs))
    /\ pages' = << >>
    /\ k' = 0
    /\ pc' = "loop"
    /\ UNCHANGED << fs, unreadable, reads, fs_at_start >>
    /\ UNCHANGED textVars

\* the loop of main with the read failure caught and the file skipped
WriteStoryHtml_skip ==
    /\ pc = "loop"
    /\ k < Len(txt_files)
    /\ LET txt_path == txt_files[k + 1]
       IN  /\ reads' = Append(reads, txt_path)
           /\ IF txt_path \in unreadable
              THEN /\ pc' = "loop"
                   /\ k' = k + 1
                   /\ UNCHANGED << fs, pages >>
              ELSE LET txt  == fs[txt_path]
                       ttl  == extract_title(txt, stem(txt_path))
                       body == to_ruby_html(txt)
                   IN  /\ fs' = write_text(fs, html_name(txt_path), story_page(ttl, body))
                       /\ pages' = Append(pages, << html_name(txt_path), ttl >>)
                       /\ k' = k + 1
                       /\ pc' = "loop"
    /\ UNCHANGED << unreadable, txt_files, fs_at_start >>
    /\ UNCHANGED textVars

\* one pass of the loop of main: write_story_html(txt_path), pages.append(...)
\* read_text raises for an unreadable file and the exception leaves main
WriteStoryHtml ==
    /\ pc = "loop"
    /\ k < Len(txt_files)
    /\ LET txt_path == txt_files[k + 1]
       IN  /\ reads' = Append(reads, txt_path)
           /\ IF txt_path \in unreadable
              THEN /\ pc' = "aborted"
                   /\ UNCHANGED << fs, pages, k >>
              ELSE LET txt  == fs[txt_path]
                       ttl  == extract_title(txt, stem(txt_path))
                       body == to_ruby_html(txt)
                   IN  /\ fs' = write_text(fs, html_name(txt_path), story_page(ttl, body))
                       /\ pages' = Append(pages, << html_name(txt_path), ttl >>)
                       /\ k' = k + 1
                       /\ pc' = "loop"
    /\ UNCHANGED << unreadable, txt_files, fs_at_start >>
    /\ UNCHANGED textVars

\* write_index(pages)
WriteIndex ==
    /\ pc = "loop"
    /\ k = Len(txt_files)
    /\ fs' = write_text(fs, INDEX_FILE, index_page(pages))
    /\ pc' = "done"
    /\ UNCHANGED << unreadable, txt_files, pages, k, reads, fs_at_start >>
    /\ UNCHANGED textVars

\* between two runs style.css is edited by hand (docstring of ensure_css)
EditCss ==
    /\ pc \in {"done", "aborted"}
    /\ fs' = write_text(fs, CSS_FILE, USER_CSS)
    /\ fs' # fs
    /\ pc' = "idle"
    /\ UNCHANGED << unreadable, txt_files, pages, k, reads, fs_at_start >>
    /\ UNCHANGED textVars

\* the generator is invoked again on the directory as it is now
StartRun ==
    /\ pc \in {"done", "aborted", "idle"}
    /\ pc' = "ensure_css"
    /\ fs_at_start' = fs
    /\ txt_files' = << >>
    /\ pages' = << >>
    /\ k' = 0
    /\ reads' = << >>
    /\ UNCHANGED << fs, unreadable >>
    /\ UNCHANGED textVars

Next == EnsureCss \/ Glob \/ WriteStoryHtml \/ WriteIndex \/ EditCss \/ StartRun

Spec == Init /\ [][Next]_vars

-----------------------------------------------------------------------------
(* Vocabulary of the properties of the text pipeline.  The annotation      *)
(* pairs of a string are described here by position, without scanning.     *)

\* pat occurs in s at position i
At(s, i, pat) ==
    /\ i >= 1
    /\ i + Len(pat) - 1 <= Len(s)
    /\ SubSeq(s, i, i + Len(pat) - 1) = pat

RECURSIVE Flatten(_)
Flatten(ss) == IF ss = << >> THEN << >> ELSE Head(ss) \o Flatten(Tail(ss))

\* <<o, c>>: an ideograph, then "(" at o, one or more characters other than
\* ")", then ")" at c
PairParens(s) ==
    { p \in (1..Len(s)) \X (1..Len(s)) :
        /\ p[1] > 1
        /\ IsHan(s[p[1] - 1])
        /\ s[p[1]] = 40
        /\ p[2] > p[1] + 1
        /\ s[p[2]] = 41
        /\ \A m \in (p[1] + 1)..(p[2] - 1) : s[m] # 41 }

\* the leftmost, non-overlapping well-formed pairs: of the pairs that close
\* at the same ")", the one that opens first
WellFormedPairs(s) ==
    { p \in PairParens(s) :
        ~ \E q \in PairParens(s) : q[2] = p[2] /\ q[1] < p[1] }

\* where the base of the pair that opens at o starts
BaseStart(s, o) == Min({ i \in 1..(o - 1) : \A m \in i..(o - 1) : IsHan(s[m]) })

\* position i of s lies in the "(pron)" of a well-formed pair
InPron(s, i) == \E p \in WellFormedPairs(s) : p[1] <= i /\ i <= p[2]

\* s with the "(pron)" of every well-formed pair and all whitespace removed
BaseOnly(s) ==
    Flatten([ i \in 1..Len(s) |->
        IF IsSpace(s[i]) \/ InPron(s, i) THEN << >> ELSE << s[i] >> ])

\* s with the "(pron)" of every well-formed pair and every space removed
BaseProjection(s) ==
    Flatten([ i \in 1..Len(s) |->
        IF s[i] = 32 \/ InPron(s, i) THEN << >> ELSE << s[i] >> ])

\* s with the "(pron)" of every well-formed pair removed
PronRemoved(s) ==
    Flatten([ i \in 1..Len(s) |-> IF InPron(s, i) THEN << >> ELSE << s[i] >> ])

\* s with base(pron) written <ruby>base<rt>pron</rt></ruby>, the rest as it is
Annotated(s) ==
    Flatten([ i \in 1..Len(s) |->
        IF \E p \in WellFormedPairs(s) : p[1] = i THEN RT_OPEN
        ELSE IF \E p \in WellFormedPairs(s) : p[2] = i THEN RT_CLOSE \o RUBY_CLOSE
        ELSE IF \E p \in WellFormedPairs(s) : BaseStart(s, p[1]) = i
             THEN RUBY_OPEN \o << s[i] >>
        ELSE << s[i] >> ])

\* a parenthesis that belongs to no well-formed pair
StrayParens(s) ==
    { i \in 1..Len(s) :
        /\ s[i] \in {40, 41}
        /\ ~InPron(s, i) }

\* the first line with a non-whitespace character, trimmed
HasLine(t) == \E i \in 1..Len(t) : ~IsSpace(t[i])
FirstLine(t) ==
    LET ls == splitlines(t)
        i  == Min({ n \in 1..Len(ls) : strip(ls[n]) # << >> })
    IN  strip(ls[i])

\* "(pron)" alone: annotation syntax whose base text is empty
EmptyBaseAnnotation(s) ==
    /\ Len(s) >= 3
    /\ s[1] = 40
    /\ s[Len(s)] = 41
    /\ \A m \in 2..(Len(s) - 1) : s[m] \notin {40, 41}

\* the blocks to_ruby_html renders: the non-blank pieces between "\n\n", trimmed
SourceBlocks(t) ==
    LET bs == splitBlank(strip(t))
    IN  SelectSeq([ i \in 1..Len(bs) |-> strip(bs[i]) ], LAMBDA b : b # << >>)

\* number of "<p>" in the output
CountP(h) == Cardinality({ i \in 1..Len(h) : At(h, i, P_OPEN) })

\* number of groups of non-blank lines, a blank line being one that is empty
\* or all whitespace
LineGroups(t) ==
    LET ls == splitlines(t)
    IN  Cardinality({ i \in 1..Len(ls) :
            /\ strip(ls[i]) # << >>
            /\ (i = 1 \/ strip(ls[i - 1]) = << >>) })

RECURSIVE StripMarkupFrom(_, _)
\* the rendered text without <p>, <ruby> and <rt>...</rt>
StripMarkupFrom(h, i) ==
    IF i > Len(h) THEN << >>
    ELSE IF At(h, i, P_OPEN) THEN StripMarkupFrom(h, i + Len(P_OPEN))
    ELSE IF At(h, i, P_CLOSE) THEN StripMarkupFrom(h, i + Len(P_CLOSE))
    ELSE IF At(h, i, RUBY_OPEN) THEN StripMarkupFrom(h, i + Len(RUBY_OPEN))
    ELSE IF At(h, i, RUBY_CLOSE) THEN StripMarkupFrom(h, i + Len(RUBY_CLOSE))
    ELSE IF At(h, i, RT_OPEN)
         THEN LET e == { j \in i..Len(h) : At(h, j, RT_CLOSE) }
              IN  IF e = {} THEN << >> ELSE StripMarkupFrom(h, Min(e) + Len(RT_CLOSE))
    ELSE << h[i] >> \o StripMarkupFrom(h, i + 1)

StripMarkup(h) == StripMarkupFrom(h, 1)

-----------------------------------------------------------------------------
(* Properties of the text pipeline (SpecText). *)

\* C1: the rendered body contains no space character: every literal space
\* of the source is removed before annotation substitution.
C1_BodyHasNoSpace ==
    tpc = "rendered" => \A i \in 1..Len(body_html) : body_html[i] # 32

\* C2: round trip: each rendered block without its markup (<p>, <ruby>,
\* <rt>pron</rt>) is the source block with the pronunciations of its pairs
\* and all spaces removed.
C2_RoundTrip ==
    tpc = "rendered" =>
        LET out == splitBlank(body_html)
            src == SourceBlocks(text)
        IN  \A i \in 1..Len(src) :
                /\ i <= Len(out)
                /\ StripMarkup(out[i]) = BaseProjection(src[i])

\* C3: extract_title returns the fallback when the document has no
\* non-whitespace line and when its first non-whitespace line is annotation
\* syntax with an empty base, such as "(a)".
C3_FallbackEdgeCases ==
    tpc # "text" =>
        /\ (~HasLine(text) => title = Fallback)
        /\ (HasLine(text) /\ EmptyBaseAnnotation(FirstLine(text)) => title = Fallback)

\* C4: the title is the first non-blank line with each base(pron) replaced
\* by base and all whitespace removed; a first line without annotation and
\* without inner whitespace is returned as it is, never the fallback.
C4_TitleIsBaseOfFirstLine ==
    tpc # "text" /\ HasLine(text) =>
        LET first == FirstLine(text)
        IN  /\ title = BaseOnly(first)
            /\ (WellFormedPairs(first) = {} /\ (\A i \in 1..Len(first) : ~IsSpace(first[i]))
                    => title = first /\ title # Fallback)

C4_Witness ==
    /\ tpc # "text"
    /\ HasLine(text)
    /\ WellFormedPairs(FirstLine(text)) # {}
    /\ title # FirstLine(text)
    /\ title # Fallback

\* C7: every <p>...</p> of the output encloses a non-whitespace character,
\* there are as many <p> as blocks that are not blank, and a document that is
\* empty or all whitespace renders to the empty string.
C7_NoEmptyWrapper ==
    tpc = "rendered" =>
        /\ \A i \in 1..Len(body_html) :
              At(body_html, i, P_OPEN) =>
                 \E j \in (i + 1)..Len(body_html) :
                    /\ At(body_html, j, P_CLOSE)
                    /\ \A m \in i..(j - 1) : ~At(body_html, m, P_CLOSE)
                    /\ \E m \in (i + Len(P_OPEN))..(j - 1) : ~IsSpace(body_html[m])
        /\ CountP(body_html) = Len(SourceBlocks(text))
        /\ ((\A i \in 1..Len(text) : IsSpace(text[i])) => body_html = << >>)

\* a blank block between two rendered ones
C7_Witness ==
    /\ tpc = "rendered"
    /\ CountP(body_html) = 2
    /\ Len(splitBlank(strip(text))) = 3

\* C9: blank lines (empty or all whitespace) are paragraph breaks: there are
\* as many <p> blocks as blank-line-delimited groups of non-blank lines.
C9_BlankLineIsBreak ==
    tpc = "rendered" => CountP(body_html) = LineGroups(text)

\* C10: inside its wrapper a block is written as it is, except that each
\* leftmost non-overlapping well-formed pair is written as a ruby element;
\* a block without a well-formed pair is written character for character.
C10_PassThrough ==
    tpc = "rendered" =>
        LET src == SourceBlocks(text)
        IN  /\ body_html =
                  joinBlank([ i \in 1..Len(src) |-> P_OPEN \o Annotated(src[i]) \o P_CLOSE ])
            /\ (Len(src) = 1 /\ WellFormedPairs(src[1]) = {}
                    => body_html = P_OPEN \o src[1] \o P_CLOSE)

\* a pair is rewritten next to a parenthesis that is left alone
C10_Witness ==
    /\ tpc = "rendered"
    /\ Len(SourceBlocks(text)) = 1
    /\ WellFormedPairs(SourceBlocks(text)[1]) # {}
    /\ StrayParens(SourceBlocks(text)[1]) # {}

-----------------------------------------------------------------------------
(* Properties of a run of main (Spec). *)

\* the source files of the directory
Sources == { n \in DOMAIN fs : At(n, Len(n) - Len(TXT_SUFFIX) + 1, TXT_SUFFIX) }

\* the source file with exactly i - 1 source files before it in name order
IsNth(n, i) ==
    /\ n \in Sources
    /\ Cardinality({ m \in Sources : LexLess(m, n) }) = i - 1

\* the page record of source file n
RecordOf(n) == << html_name(n), extract_title(fs[n], stem(n)) >>

HasFile(dir, name) == name \in DOMAIN dir

\* file `name` is the same in both directories: absent in both, or equal
SameFile(d1, d2, name) ==
    /\ HasFile(d1, name) <=> HasFile(d2, name)
    /\ HasFile(d1, name) => d1[name] = d2[name]

\* a step of a run leaves the stylesheet alone, or is ensure_css creating it
CssStep ==
    \/ pc' = "idle"
    \/ SameFile(fs', fs, CSS_FILE)
    \/ /\ pc = "ensure_css"
       /\ ~HasFile(fs, CSS_FILE)
       /\ ~HasFile(fs_at_start, CSS_FILE)
       /\ HasFile(fs', CSS_FILE)
       /\ fs'[CSS_FILE] = DEFAULT_CSS

\* a step of a run leaves the page records alone or appends one record
PagesStep ==
    pc \in {"loop", "glob"} =>
        \/ pages' = pages
        \/ /\ Len(pages') = Len(pages) + 1
           /\ SubSeq(pages', 1, Len(pages)) = pages

\* nothing is read or written after a read failure
AbortedStep == pc = "aborted" => pc' = "idle" \/ (fs' = fs /\ pc' = "ensure_css")

\* the index is written only at the end of a run that read every source file
IndexStep ==
    HasFile(fs', INDEX_FILE) /\ ~SameFile(fs', fs, INDEX_FILE) =>
        pc' = "done" /\ \A n \in Sources : n \notin unreadable

\* C5: a stylesheet that exists when a run starts keeps its content through
\* the run; the stylesheet is only ever written where it is absent, with the
\* default content, by ensure_css; no other step of the run touches it.
C5_StylesheetPreserved ==
    /\ [](pc # "idle" /\ HasFile(fs_at_start, CSS_FILE)
              => SameFile(fs, fs_at_start, CSS_FILE))
    /\ [][CssStep]_vars

\* a run over a hand-edited stylesheet wrote a story page and the index
C5_Witness ==
    /\ pc = "done"
    /\ HasFile(fs_at_start, CSS_FILE)
    /\ fs_at_start[CSS_FILE] = USER_CSS
    /\ fs[CSS_FILE] = USER_CSS
    /\ Len(pages) >= 1
    /\ HasFile(fs, INDEX_FILE)

\* C6: the page records are only appended to, the i-th record is that of
\* the i-th source file in name order, and the index of a completed run has
\* exactly these records as its items, in that order.
C6_IndexInSourceOrder ==
    /\ [](pc \in {"loop", "done", "aborted"} =>
             \A i \in 1..Len(pages) : \E n \in Sources : IsNth(n, i) /\ pages[i] = RecordOf(n))
    /\ [](pc = "done" =>
             /\ HasFile(fs, INDEX_FILE)
             /\ Len(fs[INDEX_FILE].items) = Cardinality(Sources)
             /\ \A i \in 1..Len(fs[INDEX_FILE].items) :
                   \E n \in Sources :
                      /\ IsNth(n, i)
                      /\ fs[INDEX_FILE].items[i] =
                            [ href |-> RecordOf(n)[1], title |-> RecordOf(n)[2] ])
    /\ [][PagesStep]_vars

\* a completed run over three source files, "a-.txt" before "a.txt"
C6_Witness ==
    /\ pc = "done"
    /\ Len(fs[INDEX_FILE].items) = 3
    /\ fs[INDEX_FILE].items[1].href = << 97, 45 >> \o HTML_SUFFIX
    /\ fs[INDEX_FILE].items[1].title # fs[INDEX_FILE].items[2].title

\* C8: the source files are read one at a time in sorted order, each with
\* its page written and its record appended before the next is read; a read
\* failure ends the run: nothing is read after it, the failing file gets no
\* record, the index is as it was when the run started, and the pages
\* written before it stay.
C8_SequentialAbortOnReadError ==
    /\ [](pc \in {"loop", "done", "aborted"} =>
             /\ Len(reads) <= Len(txt_files)
             /\ \A i \in 1..Len(reads) : reads[i] = txt_files[i]
             /\ \A i \in 1..Len(reads) :
                   reads[i] \in unreadable => pc = "aborted" /\ i = Len(reads)
             /\ Len(pages) = k
             /\ Len(reads) = (IF pc = "aborted" THEN k + 1 ELSE k)
             /\ \A i \in 1..k :
                   /\ HasFile(fs, html_name(txt_files[i]))
                   /\ fs[html_name(txt_files[i])] =
                         story_page(extract_title(fs[txt_files[i]], stem(txt_files[i])),
                                    to_ruby_html(fs[txt_files[i]]))
                   /\ pages[i] = RecordOf(txt_files[i])
             /\ \A i \in (k + 1)..Len(txt_files) :
                   SameFile(fs, fs_at_start, html_name(txt_files[i])))
    /\ [](pc = "aborted" =>
             /\ reads[Len(reads)] \in unreadable
             /\ SameFile(fs, fs_at_start, INDEX_FILE))
    /\ [][AbortedStep]_vars
    /\ [][IndexStep]_vars

\* a run that wrote a page, then failed on the second of three files
C8_Witness ==
    /\ pc = "aborted"
    /\ Len(pages) = 1
    /\ Len(reads) = 2
    /\ Len(txt_files) = 3
    /\ HasFile(fs, pages[1][1])
    /\ ~HasFile(fs, INDEX_FILE)

====
